---- MODULE Spec2Model ----
(***************************************************************************)
(* Model of the assistant bot of task1.py: the field value types (Name,    *)
(* Phone, Birthday), the contact Record, the AddressBook with its          *)
(* upcoming-birthday query, the input_error decorator, the command         *)
(* handlers and the read loop of main().                                   *)
(*                                                                         *)
(* A Python str is a sequence of one-character strings; "U+0661" stands    *)
(* for the single character ARABIC-INDIC DIGIT ONE.  A date is a record    *)
(* [year, month, day].  An optional value (None or an object) is a         *)
(* sequence of length 0 or 1.                                              *)
(***************************************************************************)
EXTENDS Integers, Sequences, FiniteSets, TLC

\* ------------------------------------------------------------------ bounds
\* Longest phone list a record may grow to (add and change are disabled
\* beyond it).
MaxPhones == 3

\* ------------------------------------------------------------- characters
AsciiDigits == {"0", "1", "2", "3", "4", "5", "6", "7", "8", "9"}

\* Decimal digits (category Nd) outside ASCII that the inputs use.
UnicodeDigits == {"U+0661"}

\* \d of a str pattern: any Unicode decimal digit.
IsDigit(c) == c \in AsciiDigits \cup UnicodeDigits

\* int() of one decimal digit character.
DigitValue(c) ==
  CASE c = "0" -> 0 [] c = "1" -> 1 [] c = "2" -> 2 [] c = "3" -> 3
    [] c = "4" -> 4 [] c = "5" -> 5 [] c = "6" -> 6 [] c = "7" -> 7
    [] c = "8" -> 8 [] c = "9" -> 9 [] c = "U+0661" -> 1

\* str.isspace for the characters str.strip() removes.
IsSpace(c) == c \in {" ", "\t", "\n", "\r"}

UpperLetters == <<"A", "B", "C", "D", "E", "G", "H", "I", "L", "N", "O", "P", "R", "S", "T", "W", "X", "Y">>
LowerLetters == <<"a", "b", "c", "d", "e", "g", "h", "i", "l", "n", "o", "p", "r", "s", "t", "w", "x", "y">>

\* str.lower on one character.
LowerChar(c) ==
  IF \E i \in 1..Len(UpperLetters) : UpperLetters[i] = c
  THEN LowerLetters[CHOOSE i \in 1..Len(UpperLetters) : UpperLetters[i] = c]
  ELSE c

\* str.lower
lower(s) == [i \in 1..Len(s) |-> LowerChar(s[i])]

RECURSIVE lstrip(_)
lstrip(s) == IF s # <<>> /\ IsSpace(Head(s)) THEN lstrip(Tail(s)) ELSE s

RECURSIVE rstrip(_)
rstrip(s) ==
  IF s # <<>> /\ IsSpace(s[Len(s)]) THEN rstrip(SubSeq(s, 1, Len(s) - 1)) ELSE s

\* str.strip
strip(s) == rstrip(lstrip(s))

\* str.split(sep) for a one-character separator: always at least one piece,
\* an empty piece between two adjacent separators and at either end.
RECURSIVE SplitFrom(_, _, _)
SplitFrom(s, sep, cur) ==
  IF s = <<>> THEN <<cur>>
  ELSE IF Head(s) = sep THEN <<cur>> \o SplitFrom(Tail(s), sep, <<>>)
  ELSE SplitFrom(Tail(s), sep, Append(cur, Head(s)))

split(s, sep) == SplitFrom(s, sep, <<>>)

\* sep.join(parts) for a one-character separator.
RECURSIVE join(_, _)
join(parts, sep) ==
  IF parts = <<>> THEN <<>>
  ELSE IF Len(parts) = 1 THEN parts[1]
  ELSE parts[1] \o <<sep>> \o join(Tail(parts), sep)

\* ------------------------------------------------------------------ dates
WEEKDAYS_LENGTH == 5
WEEK_LENGTH == 7
MINYEAR == 1
MAXYEAR == 9999
PHONE_DIGITS == 10

Date(y, m, d) == [year |-> y, month |-> m, day |-> d]

IsLeap(y) == (y % 4 = 0 /\ y % 100 # 0) \/ y % 400 = 0

DaysInMonth(y, m) ==
  IF m = 2 THEN (IF IsLeap(y) THEN 29 ELSE 28)
  ELSE IF m \in {4, 6, 9, 11} THEN 30 ELSE 31

DaysBeforeYear(y) ==
  LET p == y - 1 IN p * 365 + (p \div 4) - (p \div 100) + (p \div 400)

RECURSIVE DaysBeforeMonth(_, _)
DaysBeforeMonth(y, m) ==
  IF m <= 1 THEN 0 ELSE DaysBeforeMonth(y, m - 1) + DaysInMonth(y, m - 1)

\* What the date constructor accepts; anything else raises ValueError.
ValidDate(y, m, d) ==
  /\ MINYEAR <= y /\ y <= MAXYEAR
  /\ 1 <= m /\ m <= 12
  /\ 1 <= d /\ d <= DaysInMonth(y, m)

\* date.toordinal: 0001-01-01 is day 1.
toordinal(dt) ==
  DaysBeforeYear(dt.year) + DaysBeforeMonth(dt.year, dt.month) + dt.day

\* date.fromordinal
fromordinal(n) ==
  LET y == CHOOSE yy \in (n \div 366)..((n \div 365) + 1) :
             DaysBeforeYear(yy) < n /\ n <= DaysBeforeYear(yy + 1)
      r == n - DaysBeforeYear(y)
      m == CHOOSE mm \in 1..12 :
             DaysBeforeMonth(y, mm) < r /\ r <= DaysBeforeMonth(y, mm) + DaysInMonth(y, mm)
  IN Date(y, m, r - DaysBeforeMonth(y, m))

\* date.weekday: Monday is 0, Sunday is 6.
weekday(dt) == (toordinal(dt) + 6) % 7

\* date + timedelta(days = n)
AddDays(dt, n) == fromordinal(toordinal(dt) + n)

\* (a - b).days
DeltaDays(a, b) == toordinal(a) - toordinal(b)

DigitChar(n) == CHOOSE c \in AsciiDigits : DigitValue(c) = n

\* Decimal digits of a natural number, without padding.
RECURSIVE Digits(_)
Digits(n) == IF n < 10 THEN <<DigitChar(n)>> ELSE Append(Digits(n \div 10), DigitChar(n % 10))

Pad2(n) == <<DigitChar(n \div 10), DigitChar(n % 10)>>

\* date.strftime('%d.%m.%Y'): day and month zero-padded to two digits, the
\* year as the C library prints it (no padding).
strftime(dt) == Pad2(dt.day) \o <<".">> \o Pad2(dt.month) \o <<".">> \o Digits(dt.year)

RECURSIVE ToInt(_)
ToInt(s) == IF s = <<>> THEN 0 ELSE ToInt(SubSeq(s, 1, Len(s) - 1)) * 10 + DigitValue(s[Len(s)])

\* strptime's pattern for %d: 3[0-1]|[1-2]\d|0[1-9]|[1-9]
MatchesDay(s) ==
  \/ Len(s) = 2 /\ s[1] = "3" /\ s[2] \in {"0", "1"}
  \/ Len(s) = 2 /\ s[1] \in {"1", "2"} /\ IsDigit(s[2])
  \/ Len(s) = 2 /\ s[1] = "0" /\ s[2] \in AsciiDigits \ {"0"}
  \/ Len(s) = 1 /\ s[1] \in AsciiDigits \ {"0"}

\* strptime's pattern for %m: 1[0-2]|0[1-9]|[1-9]
MatchesMonth(s) ==
  \/ Len(s) = 2 /\ s[1] = "1" /\ s[2] \in {"0", "1", "2"}
  \/ Len(s) = 2 /\ s[1] = "0" /\ s[2] \in AsciiDigits \ {"0"}
  \/ Len(s) = 1 /\ s[1] \in AsciiDigits \ {"0"}

\* strptime's pattern for %Y: \d\d\d\d
MatchesYear(s) == Len(s) = 4 /\ \A i \in 1..4 : IsDigit(s[i])

\* datetime.strptime(text, '%d.%m.%Y').date(): <<date>>, or <<>> for ValueError.
strptime(text) ==
  LET parts == split(text, ".") IN
  IF Len(parts) = 3 /\ MatchesDay(parts[1]) /\ MatchesMonth(parts[2]) /\ MatchesYear(parts[3])
  THEN LET d == ToInt(parts[1])
           m == ToInt(parts[2])
           y == ToInt(parts[3])
       IN IF ValidDate(y, m, d) THEN <<Date(y, m, d)>> ELSE <<>>
  ELSE <<>>

\* date.replace(year = y): <<date>>, or <<>> for ValueError.
replace_year(dt, y) ==
  IF ValidDate(y, dt.month, dt.day) THEN <<Date(y, dt.month, dt.day)>> ELSE <<>>

\* date.isoformat, the text of a date object inside an f-string: YYYY-MM-DD.
isoformat(dt) ==
  <<DigitChar(dt.year \div 1000), DigitChar((dt.year \div 100) % 10),
    DigitChar((dt.year \div 10) % 10), DigitChar(dt.year % 10)>>
  \o <<"-">> \o Pad2(dt.month) \o <<"-">> \o Pad2(dt.day)

\* ----------------------------------------------------------------- values
\* A Python value that a handler returns or print() shows: its type, its
\* text (for an f-string, the template), the name the template was filled
\* with and, for a joined string, the joined items.
Value(t, x, a, its) == [type |-> t, text |-> x, arg |-> a, items |-> its]

None == Value("NoneType", "None", <<>>, <<>>)

Text(x) == Value("str", x, <<>>, <<>>)

FText(x, name) == Value("str", x, name, <<>>)

Joined(sep, its) == Value("str", sep, <<>>, its)

Exc(kind, msg) == Value(kind, msg, <<>>, <<>>)

\* The base class of each exception class that can occur.
BaseOf(kind) ==
  CASE kind = "IndexError" -> "LookupError"
    [] kind = "KeyError" -> "LookupError"
    [] kind = "LookupError" -> "Exception"
    [] kind = "ValueError" -> "Exception"
    [] kind = "Exception" -> "BaseException"
    [] OTHER -> "object"

RECURSIVE IsInstance(_, _)
IsInstance(kind, class) ==
  IF kind = class THEN TRUE
  ELSE IF kind = "object" THEN FALSE
  ELSE IsInstance(BaseOf(kind), class)

\* What a call leaves behind: the address book, the returned value, the
\* exception in flight (<<>> when it returned) and what it printed.
Outcome(b, r, e, o) == [book |-> b, ret |-> r, exc |-> e, out |-> o]

\* ------------------------------------------------------------ field types
\* re.match(r"^\d{10}$", value): ten characters of class \d; $ matches at
\* the end of the string and also just before a newline that ends it.
re_match_phone(value) ==
  /\ \/ Len(value) = PHONE_DIGITS
     \/ Len(value) = PHONE_DIGITS + 1 /\ value[PHONE_DIGITS + 1] = "\n"
  /\ \A i \in 1..PHONE_DIGITS : IsDigit(value[i])

\* Phone(value): <<the Phone's value>>, or <<>> when it raises.
Phone(value) == IF re_match_phone(value) THEN <<value>> ELSE <<>>

PhoneError == Exc("Exception", "Phone number must be exactly 10 digits.")

\* Birthday(value): <<the date>>, or <<>> when it raises.
Birthday(value) == strptime(value)

BirthdayError == Exc("Exception", "Invalid date format. Use DD.MM.YYYY")

\* ----------------------------------------------------------------- Record
Record(name) == [name |-> name, phones |-> <<>>, birthday |-> <<>>]

\* Record.add_phone: the record and the exception in flight.
add_phone(rec, phone_number) ==
  LET p == Phone(phone_number) IN
  IF p = <<>> THEN [rec |-> rec, exc |-> <<PhoneError>>]
  ELSE [rec |-> [rec EXCEPT !.phones = Append(@, p[1])], exc |-> <<>>]

\* The search loop of remove_phone without its break: the last match.
LastPhone(phones, phone_number) ==
  IF \E i \in 1..Len(phones) : phones[i] = phone_number
  THEN CHOOSE i \in 1..Len(phones) :
         /\ phones[i] = phone_number
         /\ \A j \in (i + 1)..Len(phones) : phones[j] # phone_number
  ELSE 0

\* Index of the first phone equal to phone_number, 0 when there is none.
FirstPhone(phones, phone_number) ==
  IF \E i \in 1..Len(phones) : phones[i] = phone_number
  THEN CHOOSE i \in 1..Len(phones) :
         /\ phones[i] = phone_number
         /\ \A j \in 1..(i - 1) : phones[j] # phone_number
  ELSE 0

RemoveAt(s, i) == SubSeq(s, 1, i - 1) \o SubSeq(s, i + 1, Len(s))

\* Record.remove_phone: the record and what it printed.
remove_phone(rec, phone_number) ==
  LET i == FirstPhone(rec.phones, phone_number) IN
  IF i # 0 THEN [rec |-> [rec EXCEPT !.phones = RemoveAt(@, i)], out |-> <<>>]
  ELSE [rec |-> rec, out |-> <<Text("Phone number not found.")>>]

\* Record.edit_phone
edit_phone(rec, old_phone_number, new_phone_number) ==
  LET r == remove_phone(rec, old_phone_number)
      a == add_phone(r.rec, new_phone_number)
  IN [rec |-> a.rec, exc |-> a.exc, out |-> r.out]

\* Record.add_birthday (the method)
set_birthday(rec, birthday) ==
  LET b == Birthday(birthday) IN
  IF b = <<>> THEN [rec |-> rec, exc |-> <<BirthdayError>>]
  ELSE [rec |-> [rec EXCEPT !.birthday = b], exc |-> <<>>]

\* ------------------------------------------------------------ AddressBook
\* The dict as its items in insertion order.
KeyIndex(data, key) ==
  IF \E i \in 1..Len(data) : data[i].key = key
  THEN CHOOSE i \in 1..Len(data) : data[i].key = key
  ELSE 0

\* add_record keyed by the Name object instead of its value: a key no
\* lookup by a str ever equals.
add_record_by_name_object(data, new_record) ==
  LET k == <<"<Name>">> \o new_record.name
      i == KeyIndex(data, k)
  IN IF i = 0 THEN Append(data, [key |-> k, value |-> new_record])
     ELSE [data EXCEPT ![i].value = new_record]

\* AddressBook.add_record
add_record(data, new_record) ==
  LET i == KeyIndex(data, new_record.name) IN
  IF i = 0 THEN Append(data, [key |-> new_record.name, value |-> new_record])
  ELSE [data EXCEPT ![i].value = new_record]

\* AddressBook.find: <<index of the record>>, or <<>> for None.
find(data, record_name) ==
  LET i == KeyIndex(data, record_name) IN IF i = 0 THEN <<>> ELSE <<i>>

\* AddressBook.delete: the dict and what it printed.
delete(data, record_name) ==
  LET i == KeyIndex(data, record_name) IN
  IF i # 0 THEN [data |-> RemoveAt(data, i), out |-> <<>>]
  ELSE [data |-> data, out |-> <<Text("Contact not found.")>>]

\* congratulation_date with the shift one day short (WEEK_LENGTH - weekday - 1).
congratulation_date_short_shift(user_birthday_date_this_year) ==
  LET wd == weekday(user_birthday_date_this_year) IN
  IF wd < WEEKDAYS_LENGTH
  THEN [type |-> "str", text |-> strftime(user_birthday_date_this_year)]
  ELSE [type |-> "date",
        text |-> isoformat(AddDays(user_birthday_date_this_year, WEEK_LENGTH - wd - 1))]

\* The congratulation date of a birthday of this year as the f-string shows
\* it: a str made by strftime on a weekday, a date object (shown in ISO
\* form) moved to the next Monday on a weekend.
congratulation_date(user_birthday_date_this_year) ==
  LET wd == weekday(user_birthday_date_this_year) IN
  IF wd < WEEKDAYS_LENGTH
  THEN [type |-> "str", text |-> strftime(user_birthday_date_this_year)]
  ELSE [type |-> "date",
        text |-> isoformat(AddDays(user_birthday_date_this_year, WEEK_LENGTH - wd))]

\* One line of the birthdays listing: the record and its congratulation date.
Congratulation(user, c) == [user |-> user, type |-> c.type, text |-> c.text]

\* The loop body of get_upcoming_birthdays from entry i on; acc is
\* users_for_congratulation.  An exception anywhere in the loop leaves it
\* for the handler around the whole loop, which prints it and falls off the
\* end of the function (None).
RECURSIVE upcoming_from(_, _, _, _)
upcoming_from(data, current_date, i, acc) ==
  IF i > Len(data)
  THEN IF Len(acc) = 0 THEN [ret |-> None, out |-> <<>>]
       ELSE [ret |-> Joined("\n", acc), out |-> <<>>]
  ELSE
    LET user == data[i].value IN
    IF user.birthday = <<>> THEN upcoming_from(data, current_date, i + 1, acc)
    ELSE
      LET user_birthday_date == strptime(strftime(user.birthday[1])) IN
      IF user_birthday_date = <<>>
      THEN [ret |-> None, out |-> <<Exc("ValueError", "does not match format")>>]
      ELSE
        LET this_year == replace_year(user_birthday_date[1], current_date.year) IN
        IF this_year = <<>>
        THEN [ret |-> None, out |-> <<Exc("ValueError", "day is out of range for month")>>]
        ELSE
          LET delta == DeltaDays(this_year[1], current_date) IN
          IF ~(delta \in 0..6) THEN upcoming_from(data, current_date, i + 1, acc)
          ELSE upcoming_from(data, current_date, i + 1,
                 Append(acc, Congratulation(user, congratulation_date(this_year[1]))))

\* AddressBook.get_upcoming_birthdays with today's date given.
get_upcoming_birthdays(data, current_date) == upcoming_from(data, current_date, 1, <<>>)

\* --------------------------------------------------------------- handlers
UnpackError == Exc("ValueError", "wrong number of values to unpack")

IndexErrorObj == Exc("IndexError", "list index out of range")

\* The position of the Record object that add_contact holds in `record`:
\* the one found, else the one it has just created and added.
RecordIndex(data, found, name) ==
  IF found # <<>> THEN found[1]
  ELSE CHOOSE i \in 1..Len(data) : data[i].value = Record(name)

\* add_contact, undecorated.
add_contact(a, data) ==
  IF Len(a) # 2 THEN Outcome(data, None, <<UnpackError>>, <<>>)
  ELSE
    LET name == a[1]
        phone == a[2]
        found == find(data, name)
        data1 == IF found = <<>> THEN add_record(data, Record(name)) ELSE data
        message == IF found = <<>> THEN FText("Contact {name} has been added.", name)
                   ELSE FText("Contact {name} has been updated.", name)
        i == RecordIndex(data1, found, name)
    IN IF phone # <<>>
       THEN LET r == add_phone(data1[i].value, phone) IN
            IF r.exc # <<>> THEN Outcome(data1, None, r.exc, <<>>)
            ELSE Outcome([data1 EXCEPT ![i].value = r.rec], message, <<>>, <<>>)
       ELSE Outcome(data1, message, <<>>, <<>>)

\* change_contact, undecorated.
change_contact(a, data) ==
  IF Len(a) # 3 THEN Outcome(data, None, <<UnpackError>>, <<>>)
  ELSE
    LET name == a[1]
        found == find(data, name)
    IN IF found = <<>>
       THEN Outcome(data, FText("Contact {name} not found.", name), <<>>, <<>>)
       ELSE LET i == found[1]
                r == edit_phone(data[i].value, a[2], a[3])
                data1 == [data EXCEPT ![i].value = r.rec]
            IN IF r.exc # <<>> THEN Outcome(data1, None, r.exc, r.out)
               ELSE Outcome(data1, FText("Contact {name} has been updated.", name), <<>>, r.out)

\* show_phone, undecorated.
show_phone(a, data) ==
  IF Len(a) = 0 THEN Outcome(data, None, <<IndexErrorObj>>, <<>>)
  ELSE
    LET name == a[1]
        found == find(data, name)
    IN IF found = <<>>
       THEN Outcome(data, FText("Contact {name} not found.", name), <<>>, <<>>)
       ELSE Outcome(data, Joined("; ", data[found[1]].value.phones), <<>>, <<>>)

\* show_all, undecorated.
show_all(data) ==
  IF Len(data) = 0 THEN Outcome(data, Text("No contacts available."), <<>>, <<>>)
  ELSE Outcome(data, Joined("\n", [i \in 1..Len(data) |-> data[i].value]), <<>>, <<>>)

\* add_birthday, undecorated.
add_birthday(a, data) ==
  IF Len(a) # 2 THEN Outcome(data, None, <<UnpackError>>, <<>>)
  ELSE
    LET name == a[1]
        found == find(data, name)
    IN IF found = <<>>
       THEN Outcome(data, FText("Contact {name} not found.", name), <<>>, <<>>)
       ELSE LET i == found[1]
                r == set_birthday(data[i].value, a[2])
            IN IF r.exc # <<>> THEN Outcome(data, None, r.exc, <<>>)
               ELSE Outcome([data EXCEPT ![i].value = r.rec],
                            FText("Birthday has been added to {name}.", name), <<>>, <<>>)

\* show_birthday, undecorated: the Birthday object of the record, or None.
show_birthday(a, data) ==
  IF Len(a) = 0 THEN Outcome(data, None, <<IndexErrorObj>>, <<>>)
  ELSE
    LET name == a[1]
        found == find(data, name)
    IN IF found = <<>>
       THEN Outcome(data, FText("Contact {name} not found.", name), <<>>, <<>>)
       ELSE LET b == data[found[1]].value.birthday IN
            IF b = <<>> THEN Outcome(data, None, <<>>, <<>>)
            ELSE Outcome(data, Value("Birthday", "%d.%m.%Y", strftime(b[1]), <<>>), <<>>, <<>>)

\* birthdays, undecorated, with today's date given.
birthdays(data, today) ==
  LET r == get_upcoming_birthdays(data, today) IN
  IF r.ret = None THEN Outcome(data, Text("Upcoming birthdays not found."), <<>>, r.out)
  ELSE Outcome(data, r.ret, <<>>, r.out)

\* delete_contact, undecorated.
delete_contact(a, data) ==
  IF Len(a) = 0 THEN Outcome(data, None, <<IndexErrorObj>>, <<>>)
  ELSE
    LET name == a[1]
        found == find(data, name)
    IN IF found = <<>> THEN Outcome(data, Text("Contact not found."), <<>>, <<>>)
       ELSE LET r == delete(data, name) IN
            Outcome(r.data, FText("Contact {name} has been deleted.", name), <<>>, r.out)

\* input_error without its `except Exception` clause.
input_error_without_catch_all(o) ==
  IF o.exc = <<>> THEN o
  ELSE LET e == o.exc[1] IN
       IF IsInstance(e.type, "KeyError")
       THEN Outcome(o.book, Text("Enter a valid command."), <<>>, o.out)
       ELSE IF IsInstance(e.type, "ValueError")
       THEN Outcome(o.book, Text("Enter the argument for the command."), <<>>, o.out)
       ELSE IF IsInstance(e.type, "IndexError")
       THEN Outcome(o.book, Text("Give me both name and phone number."), <<>>, o.out)
       ELSE o

\* The decorator: the except clauses in the order they are written.  An
\* exception no clause matches stays in flight.
input_error(o) ==
  IF o.exc = <<>> THEN o
  ELSE LET e == o.exc[1] IN
       IF IsInstance(e.type, "KeyError")
       THEN Outcome(o.book, Text("Enter a valid command."), <<>>, o.out)
       ELSE IF IsInstance(e.type, "ValueError")
       THEN Outcome(o.book, Text("Enter the argument for the command."), <<>>, o.out)
       ELSE IF IsInstance(e.type, "Exception")
       THEN Outcome(o.book, e, <<>>, o.out)
       ELSE IF IsInstance(e.type, "IndexError")
       THEN Outcome(o.book, Text("Give me both name and phone number."), <<>>, o.out)
       ELSE o

\* parse_input
parse_input(user_input) ==
  LET parts == split(user_input, " ") IN
  [command |-> lower(strip(parts[1])), args |-> Tail(parts)]

\* ------------------------------------------------------------ command words
W_add == <<"a", "d", "d">>

W_change == <<"c", "h", "a", "n", "g", "e">>

W_phone == <<"p", "h", "o", "n", "e">>

W_add_birthday == <<"a", "d", "d", "-", "b", "i", "r", "t", "h", "d", "a", "y">>

W_show_birthday == <<"s", "h", "o", "w", "-", "b", "i", "r", "t", "h", "d", "a", "y">>

W_birthdays == <<"b", "i", "r", "t", "h", "d", "a", "y", "s">>

W_delete == <<"d", "e", "l", "e", "t", "e">>

W_all == <<"a", "l", "l">>

W_hello == <<"h", "e", "l", "l", "o">>

W_help == <<"h", "e", "l", "p">>

W_exit == <<"e", "x", "i", "t">>

W_close == <<"c", "l", "o", "s", "e">>

\* The commands main() dispatches on.
KnownCommands ==
  {W_add, W_change, W_phone, W_add_birthday, W_show_birthday, W_birthdays,
   W_delete, W_all, W_hello, W_help, W_exit, W_close}

\* ---------------------------------------------------------------- inputs
\* The lines typed at the prompt are built from these words.  input()
\* returns a line without its newline, so no word holds one.
Name_a == <<"a">>

Name_b == <<"b">>

Empty == <<>>

\* Ten ASCII digits.
Phone_ascii == <<"0", "1", "2", "3", "4", "5", "6", "7", "8", "9">>

\* Ten decimal digits, the last one not ASCII.
Phone_unicode == <<"0", "1", "2", "3", "4", "5", "6", "7", "8", "U+0661">>

\* Nine digits.
Phone_short == <<"0", "1", "2", "3", "4", "5", "6", "7", "8">>

\* Ten characters, one of them a letter.
Phone_letter == <<"0", "1", "2", "3", "4", "x", "6", "7", "8", "9">>

Day_feb29 == <<"2", "9", ".", "0", "2", ".", "2", "0", "2", "4">>

Day_jun15 == <<"1", "5", ".", "0", "6", ".", "2", "0", "2", "4">>

Day_jun10 == <<"1", "0", ".", "6", ".", "1", "9", "9", "0">>

Day_dec31 == <<"3", "1", ".", "1", "2", ".", "2", "0", "2", "2">>

Day_feb31 == <<"3", "1", ".", "0", "2", ".", "2", "0", "2", "4">>

Day_iso == <<"2", "0", "2", "4", "-", "0", "6", "-", "1", "5">>

\* A command word followed by its argument words, typed with single spaces.
Line(cmd, a) == join(<<cmd>> \o a, " ")

\* All argument lists <<n>>, <<n, x>>, <<n, x, y>> over the given words.
Args1(ns) == {<<n>> : n \in ns}

Args2(ns, xs) == {<<n, x>> : n \in ns, x \in xs}

Args3(ns, xs, ys) == {<<n, x, y>> : n \in ns, x \in xs, y \in ys}

\* The lines of a session over the given names, phone words and date words:
\* every command with too few, exactly enough and too many arguments (the
\* latter with the name n1 and the phone p1), in lower and upper case, an
\* unknown command and the empty line.
LinesOver(names, phones, dates, n1, p1) ==
    {Line(W_add, a) : a \in {<<>>} \cup Args1(names) \cup Args2(names, phones)
                            \cup Args3({n1}, {p1}, {Empty, Name_a})}
    \cup {Line(W_change, a) : a \in {<<>>} \cup Args1({n1}) \cup Args2({n1}, {p1})
                            \cup Args3(names, phones \ {Phone_letter}, phones)
                            \cup {<<n1, p1, p1, p1>>}}
    \cup {Line(W_phone, a) : a \in {<<>>} \cup Args1(names) \cup Args2({n1}, {Name_a})}
    \cup {Line(W_add_birthday, a) : a \in {<<>>} \cup Args1({n1}) \cup Args2(names, dates)
                            \cup Args3({n1}, {Day_jun15}, {Empty})}
    \cup {Line(W_show_birthday, a) : a \in {<<>>} \cup Args1(names)}
    \cup {Line(W_birthdays, a) : a \in {<<>>, <<Name_a>>}}
    \cup {Line(W_delete, a) : a \in {<<>>} \cup Args1(names)}
    \cup {Line(c, <<>>) : c \in {W_all, W_hello, W_help, W_exit, W_close}}
    \cup {<<"A", "D", "D">> \o <<" ">> \o n1 \o <<" ">> \o p1,
          <<"\t", "a", "l", "l">>, <<"E", "x", "i", "t">>,
          <<"a", "d", "d", "\t">> \o n1, <<"x">>, <<>>}

\* The session of the phones: one contact, well-formed and malformed phones.
Lines ==
  LinesOver({Name_a},
            {Phone_ascii, Phone_unicode, Phone_short, Phone_letter, Empty},
            {Day_jun15, Day_feb31}, Name_a, Phone_ascii)

Todays == {Date(2024, 6, 10), Date(2023, 3, 1)}

\* The session of the names: three names, one of them the empty word that
\* a doubled space produces; contacts without phones.
NameLines ==
  LinesOver({Name_a, Name_b, Empty}, {Empty}, {Day_jun15, Day_feb31},
            Name_a, Empty)

\* The session of the birthday listing: two names, contacts without
\* phones, birthdays in February, June and December.
BirthdayLines ==
  LinesOver({Name_a, Name_b}, {Empty},
            {Day_feb29, Day_jun15, Day_jun10, Day_dec31, Day_feb31, Day_iso},
            Name_a, Empty)

BirthdayTodays ==
  {Date(y, 6, d) : y \in {2023, 2024, 2025}, d \in {8, 9, 10, 15, 16}}
  \cup {Date(y, 12, d) : y \in {2022, 2023, 2024}, d \in {24, 25, 31}}
  \cup {Date(y, 2, d) : y \in {2020, 2023, 2024}, d \in {22, 23, 28}}
  \cup {Date(2024, 2, 29), Date(2024, 3, 1), Date(2023, 3, 1)}

\* ------------------------------------------------------------------ state
VARIABLES
  book,          \* main's book: the AddressBook's data, items in insertion order
  pc,            \* "loop" at the prompt, "done" after the break, "crashed" when an exception left main
  command,       \* main's command, from the last line read
  args,          \* main's args, from the last line read
  output,        \* what the last iteration printed, in order
  saved,         \* what save_data has pickled: <<>> or <<the book>>
  current_date   \* <<today>> when the last command was birthdays, else <<>>

vars == <<book, pc, command, args, output, saved, current_date>>

\* main() up to the first prompt; load_data() finds no file.
Init ==
  /\ book = <<>>
  /\ pc = "loop"
  /\ command = <<>>
  /\ args = <<>>
  /\ output = <<Text("Welcome to Assistant Bot!"), Text("Available commands: ...")>>
  /\ saved = <<>>
  /\ current_date = <<>>

\* What parse_input makes of each line of a session.
Parsed == {parse_input(user_input) : user_input \in Lines}

NameParsed == {parse_input(user_input) : user_input \in NameLines}

BirthdayParsed == {parse_input(user_input) : user_input \in BirthdayLines}

\* user_input = input(...); command, *args = parse_input(user_input), where
\* p is parse_input(user_input) and the branch taken is the one for cmds.
Read(p, cmds) ==
  /\ pc = "loop"
  /\ p.command \in cmds
  /\ command' = p.command
  /\ args' = p.args

\* print(handler(args, book)): the handler's own prints, then its result;
\* an exception the decorator let through leaves main().
Show(o) ==
  /\ book' = o.book
  /\ \A i \in 1..Len(o.book) : Len(o.book[i].value.phones) <= MaxPhones
  /\ IF o.exc = <<>>
     THEN pc' = "loop" /\ output' = Append(o.out, o.ret)
     ELSE pc' = "crashed" /\ output' = Append(o.out, o.exc[1])
  /\ UNCHANGED saved

CmdExit(P) ==
  \E p \in P :
    /\ Read(p, {W_close, W_exit})
    /\ saved' = <<book>>
    /\ output' = <<Text("Good bye!")>>
    /\ pc' = "done"
    /\ current_date' = <<>>
    /\ UNCHANGED book

CmdHelp(P) ==
  \E p \in P :
    /\ Read(p, {W_help})
    /\ output' = <<Text("Available commands: ...")>>
    /\ current_date' = <<>>
    /\ UNCHANGED <<book, pc, saved>>

CmdHello(P) ==
  \E p \in P :
    /\ Read(p, {W_hello})
    /\ output' = <<Text("How can I help you?")>>
    /\ current_date' = <<>>
    /\ UNCHANGED <<book, pc, saved>>

CmdAdd(P) ==
  \E p \in P :
    /\ Read(p, {W_add})
    /\ Show(input_error(add_contact(args', book)))
    /\ current_date' = <<>>

CmdChange(P) ==
  \E p \in P :
    /\ Read(p, {W_change})
    /\ Show(input_error(change_contact(args', book)))
    /\ current_date' = <<>>

CmdPhone(P) ==
  \E p \in P :
    /\ Read(p, {W_phone})
    /\ Show(input_error(show_phone(args', book)))
    /\ current_date' = <<>>

CmdAddBirthday(P) ==
  \E p \in P :
    /\ Read(p, {W_add_birthday})
    /\ Show(input_error(add_birthday(args', book)))
    /\ current_date' = <<>>

CmdShowBirthday(P) ==
  \E p \in P :
    /\ Read(p, {W_show_birthday})
    /\ Show(input_error(show_birthday(args', book)))
    /\ current_date' = <<>>

\* datetime.today() is whatever day the command is typed on.
CmdBirthdays(P, T) ==
  \E p \in P, today \in T :
    /\ Read(p, {W_birthdays})
    /\ Show(input_error(birthdays(book, today)))
    /\ current_date' = <<today>>

CmdDelete(P) ==
  \E p \in P :
    /\ Read(p, {W_delete})
    /\ Show(input_error(delete_contact(args', book)))
    /\ current_date' = <<>>

CmdAll(P) ==
  \E p \in P :
    /\ Read(p, {W_all})
    /\ Show(input_error(show_all(book)))
    /\ current_date' = <<>>

CmdInvalid(P) ==
  \E p \in P :
    /\ Read(p, {p.command} \ KnownCommands)
    /\ output' = <<Text("Invalid command.")>>
    /\ current_date' = <<>>
    /\ UNCHANGED <<book, pc, saved>>

\* One iteration of the while loop of main().
Next ==
  \/ CmdExit(Parsed)
  \/ CmdHelp(Parsed)
  \/ CmdHello(Parsed)
  \/ CmdAdd(Parsed)
  \/ CmdChange(Parsed)
  \/ CmdPhone(Parsed)
  \/ CmdAddBirthday(Parsed)
  \/ CmdShowBirthday(Parsed)
  \/ CmdBirthdays(Parsed, Todays)
  \/ CmdDelete(Parsed)
  \/ CmdAll(Parsed)
  \/ CmdInvalid(Parsed)

Spec == Init /\ [][Next]_vars

NextNames ==
  \/ CmdExit(NameParsed)
  \/ CmdHelp(NameParsed)
  \/ CmdHello(NameParsed)
  \/ CmdAdd(NameParsed)
  \/ CmdChange(NameParsed)
  \/ CmdPhone(NameParsed)
  \/ CmdAddBirthday(NameParsed)
  \/ CmdShowBirthday(NameParsed)
  \/ CmdBirthdays(NameParsed, Todays)
  \/ CmdDelete(NameParsed)
  \/ CmdAll(NameParsed)
  \/ CmdInvalid(NameParsed)

SpecNames == Init /\ [][NextNames]_vars

NextBirthdays ==
  \/ CmdExit(BirthdayParsed)
  \/ CmdHelp(BirthdayParsed)
  \/ CmdHello(BirthdayParsed)
  \/ CmdAdd(BirthdayParsed)
  \/ CmdChange(BirthdayParsed)
  \/ CmdPhone(BirthdayParsed)
  \/ CmdAddBirthday(BirthdayParsed)
  \/ CmdShowBirthday(BirthdayParsed)
  \/ CmdBirthdays(BirthdayParsed, BirthdayTodays)
  \/ CmdDelete(BirthdayParsed)
  \/ CmdAll(BirthdayParsed)
  \/ CmdInvalid(BirthdayParsed)

SpecBirthdays == Init /\ [][NextBirthdays]_vars

\* ------------------------------------------------------------- properties
\* What the last command printed last: the value handed to print().
Result == output[Len(output)]

\* The lines of the listing the birthdays command has just printed; empty
\* when it printed a message instead or another command ran last.
Listing ==
  IF current_date # <<>> /\ Result.type = "str" /\ Result.text = "\n"
  THEN Result.items ELSE <<>>

Listed(rec) == \E k \in 1..Len(Listing) : Listing[k].user = rec

\* The birthday's month and day exist in the year of today and lie today
\* or up to six days ahead.
InWindow(rec, today) ==
  /\ rec.birthday # <<>>
  /\ ValidDate(today.year, rec.birthday[1].month, rec.birthday[1].day)
  /\ DeltaDays(Date(today.year, rec.birthday[1].month, rec.birthday[1].day), today) \in 0..6

IsFeb29(rec) ==
  rec.birthday # <<>> /\ rec.birthday[1].month = 2 /\ rec.birthday[1].day = 29

\* The date a line of the listing shows, read back from its text.
CongratulationDateOf(item) ==
  IF item.type = "str" THEN strptime(item.text)[1]
  ELSE LET parts == split(item.text, "-") IN
       Date(ToInt(parts[1]), ToInt(parts[2]), ToInt(parts[3]))

\* C1: after the birthdays command, a contact is in the listing if and only
\* if it has a birthday whose month and day, put into the current year, lie
\* 0 to 6 days after today; contacts without a birthday, with a birthday
\* already passed this year or 7 or more days ahead are not listed.
C1_IncludedIffInWindow ==
  (pc = "loop" /\ current_date # <<>>) =>
    \A i \in 1..Len(book) :
      Listed(book[i].value) <=> InWindow(book[i].value, current_date[1])

\* C2: every line of the listing shows the anchored date itself when that
\* is a Monday to Friday, and the anchored date plus (7 - weekday) days when
\* it is a Saturday or Sunday; the date shown is always a Monday to Friday,
\* never before the anchored date and at most 2 days after it.
C2_CongratulationDate ==
  \A k \in 1..Len(Listing) :
    LET b == Listing[k].user.birthday[1]
        anchored == Date(current_date[1].year, b.month, b.day)
        shown == CongratulationDateOf(Listing[k])
    IN /\ weekday(anchored) < 5 => shown = anchored
       /\ weekday(anchored) \in {5, 6} => shown = AddDays(anchored, 7 - weekday(anchored))
       /\ weekday(shown) \in 0..4
       /\ DeltaDays(shown, anchored) \in 0..2

\* On Monday 2024-06-10 the contact born on 15.06 (a Saturday in 2024) is
\* listed for Monday 2024-06-17.
C2_Witness ==
  /\ current_date = <<Date(2024, 6, 10)>>
  /\ \E k \in 1..Len(Listing) :
       /\ Listing[k].user.birthday = <<Date(2024, 6, 15)>>
       /\ Listing[k].text = <<"2", "0", "2", "4", "-", "0", "6", "-", "1", "7">>

\* C4: when the current year is not a leap year and some contact was born
\* on 29 February, the birthdays command still lists every contact whose
\* birthday lies in the window, and reports that there are none only when
\* no contact's birthday lies in the window.
C4_Feb29SkippedAlone ==
  (/\ pc = "loop" /\ current_date # <<>>
   /\ ~IsLeap(current_date[1].year)
   /\ \E i \in 1..Len(book) : IsFeb29(book[i].value)) =>
    /\ \A j \in 1..Len(book) :
         InWindow(book[j].value, current_date[1]) => Listed(book[j].value)
    /\ Result = Text("Upcoming birthdays not found.") =>
         ~\E j \in 1..Len(book) : InWindow(book[j].value, current_date[1])

\* C3: every entry of the address book maps its key to a record whose name
\* is that key, and no two entries have the same key.
C3_KeyIsName ==
  /\ \A i \in 1..Len(book) : book[i].key = book[i].value.name
  /\ \A i, j \in 1..Len(book) : book[i].key = book[j].key => i = j

\* Three contacts, and an add for a name already there has just updated it.
C3_Witness ==
  /\ Len(book) = 3
  /\ command = W_add
  /\ Result = FText("Contact {name} has been updated.", Name_a)

\* The number of argument words each command with arguments needs.
Required(c) ==
  CASE c = W_add -> 2 [] c = W_change -> 3 [] c = W_phone -> 1
    [] c = W_add_birthday -> 2 [] c = W_show_birthday -> 1 [] c = W_delete -> 1

\* The messages of the decorator that tell the user an argument is missing.
MissingArgumentMessages ==
  {Text("Give me both name and phone number."), Text("Enter the argument for the command.")}

\* C5: add, change, phone, add-birthday, show-birthday and delete, typed
\* with fewer arguments than they need, print a missing-argument message
\* (not an exception object), do not end the loop and leave the address
\* book as it was.
C5_MissingArguments ==
  [][(/\ pc = "loop"
      /\ command' \in {W_add, W_change, W_phone, W_add_birthday, W_show_birthday, W_delete}
      /\ Len(args') < Required(command'))
     => (/\ pc' = "loop"
         /\ Result' \in MissingArgumentMessages
         /\ book' = book)]_vars

\* C6: every step of the loop on a command other than exit and close leaves
\* the program at the prompt; the loop ends only on exit or close, with the
\* address book handed to save_data; no exception ever leaves main().
C6_LoopStaysAlive ==
  [][/\ pc = "loop"
     /\ IF command' \in {W_exit, W_close}
        THEN pc' = "done" /\ saved' = <<book>> /\ book' = book
        ELSE pc' = "loop" /\ saved' = saved]_vars

\* A malformed phone was rejected and the program is back at the prompt.
C6_Witness == pc = "loop" /\ Result = PhoneError /\ command \in {W_add, W_change}

\* Exactly ten ASCII decimal digits.
TenAsciiDigits(value) ==
  Len(value) = 10 /\ \A i \in 1..Len(value) : value[i] \in AsciiDigits

\* C7: every phone stored in a record is a string of exactly ten ASCII
\* decimal digits (Phone accepts nothing else).
C7_StoredPhonesAscii ==
  \A i \in 1..Len(book) :
    \A k \in 1..Len(book[i].value.phones) : TenAsciiDigits(book[i].value.phones[k])

\* C8: no record of the address book has the empty string as its name.
C8_NameNotEmpty == \A i \in 1..Len(book) : book[i].value.name # <<>>

\* phones with its first occurrence of old taken out and new put at the end;
\* with no occurrence of old, new put at the end.
EditedPhones(phones, old, new) ==
  IF \A j \in 1..Len(phones) : phones[j] # old THEN phones \o <<new>>
  ELSE LET k == CHOOSE j \in 1..Len(phones) :
                  phones[j] = old /\ \A h \in 1..(j - 1) : phones[h] # old
       IN [j \in 1..Len(phones) |->
             IF j < k THEN phones[j] ELSE IF j < Len(phones) THEN phones[j + 1] ELSE new]

\* C9: change on an existing contact with a well-formed new phone (that is,
\* edit_phone(old, new)) puts new at the end of phones and takes out exactly
\* the first occurrence of old, if there is one; every other phone stays, in
\* order, and nothing else in the address book changes.
C9_EditPhone ==
  [][(/\ pc = "loop"
      /\ command' = W_change
      /\ Len(args') = 3
      /\ KeyIndex(book, args'[1]) # 0
      /\ re_match_phone(args'[3]))
     => LET i == KeyIndex(book, args'[1]) IN
        book' = [book EXCEPT
                   ![i].value.phones = EditedPhones(@, args'[2], args'[3])]]_vars

\* A change whose old phone the record did not have: the record now has
\* three phones, the two it had and the new one.
C9_Witness ==
  /\ command = W_change
  /\ output = <<Text("Phone number not found."),
                FText("Contact {name} has been updated.", Name_a)>>
  /\ Len(book) = 1
  /\ Len(book[1].value.phones) = 3
  /\ book[1].value.phones[3] = args[3]

\* C10: a command that ends with a validation error (a malformed phone or a
\* malformed date) leaves the address book exactly as it was.
C10_ValidationErrorNoChange ==
  [][(pc = "loop" /\ Result' \in {PhoneError, BirthdayError}) => book' = book]_vars

====
